---- MODULE Spec2Model ----
(***************************************************************************)
(* A model of jotmd (src/jotmd.py): the note renderer and the journal      *)
(* file manager.  Text is a sequence of one-character strings; a file is   *)
(* the sequence of characters stored in it, or Absent.                     *)
(***************************************************************************)
EXTENDS Integers, Sequences, FiniteSets, TLC

(* ------------------------------ characters ----------------------------- *)

\* The digits, the upper-case and the lower-case letters, each in code-point
\* order (from 48, 65 and 97).
Digits == << "0", "1", "2", "3", "4", "5", "6", "7", "8", "9" >>

UpperCase ==
  << "A", "B", "C", "D", "E", "F", "G", "H", "I", "J", "K", "L", "M",
     "N", "O", "P", "Q", "R", "S", "T", "U", "V", "W", "X", "Y", "Z" >>

LowerCase ==
  << "a", "b", "c", "d", "e", "f", "g", "h", "i", "j", "k", "l", "m",
     "n", "o", "p", "q", "r", "s", "t", "u", "v", "w", "x", "y", "z" >>

\* The other characters of the model's texts, with their code points.
Punctuation ==
  { <<"\t", 9>>, <<"\n", 10>>, <<"\f", 12>>, <<"\r", 13>>, <<" ", 32>>,
    <<"#", 35>>, <<"*", 42>>, <<"-", 45>>, <<"/", 47>>, <<":", 58>> }

\* Code point of a character, the order Python compares strings by.
CodePoint ==
  [c \in {p[1] : p \in Punctuation}
         \cup {Digits[i] : i \in 1..10}
         \cup {UpperCase[i] : i \in 1..26}
         \cup {LowerCase[i] : i \in 1..26} |->
     IF \E p \in Punctuation : p[1] = c
       THEN (CHOOSE p \in Punctuation : p[1] = c)[2]
     ELSE IF \E i \in 1..10 : Digits[i] = c
       THEN 47 + (CHOOSE i \in 1..10 : Digits[i] = c)
     ELSE IF \E i \in 1..26 : UpperCase[i] = c
       THEN 64 + (CHOOSE i \in 1..26 : UpperCase[i] = c)
     ELSE 96 + (CHOOSE i \in 1..26 : LowerCase[i] = c)]

\* str.isspace / the regular expression class \s, on the characters above.
IsSpace(c) == c \in {" ", "\t", "\n", "\f", "\r"}

\* The regular expression class [A-Z].
IsUpper(c) == CodePoint[c] \in 65..90

\* The regular expression class \d.
IsDigit(c) == CodePoint[c] \in 48..57

\* First index at or after i whose character is not white space (Len(s)+1
\* when there is none): where a greedy \s* starting at i stops.
RECURSIVE SkipSpace(_, _)
SkipSpace(s, i) ==
  IF i > Len(s) \/ ~IsSpace(s[i]) THEN i ELSE SkipSpace(s, i + 1)

\* Last index at or before i whose character is not white space (0 when
\* there is none).
RECURSIVE SkipSpaceBack(_, _)
SkipSpaceBack(s, i) ==
  IF i < 1 \/ ~IsSpace(s[i]) THEN i ELSE SkipSpaceBack(s, i - 1)

\* str.rstrip()
RStrip(s) == SubSeq(s, 1, SkipSpaceBack(s, Len(s)))

\* str.strip()
Strip(s) == SubSeq(s, SkipSpace(s, 1), SkipSpaceBack(s, Len(s)))

\* s < t in the string order of Python (lexicographic by code point).
RECURSIVE StrLess(_, _)
StrLess(s, t) ==
  IF t = <<>> THEN FALSE
  ELSE IF s = <<>> THEN TRUE
  ELSE IF s[1] = t[1] THEN StrLess(Tail(s), Tail(t))
  ELSE CodePoint[s[1]] < CodePoint[t[1]]

\* Insert string x into the sorted list l after every element not above it.
RECURSIVE InsertSorted(_, _)
InsertSorted(x, l) ==
  IF l = <<>> THEN <<x>>
  ELSE IF StrLess(x, l[1]) THEN <<x>> \o l
  ELSE <<l[1]>> \o InsertSorted(x, Tail(l))

\* sorted(l) left out: the list in the order given.
SortedAsGiven(l) == l

\* sorted(l) for a list of strings.
RECURSIVE Sorted(_)
Sorted(l) ==
  IF l = <<>> THEN <<>>
  ELSE InsertSorted(l[Len(l)], Sorted(SubSeq(l, 1, Len(l) - 1)))

(* ------------------------------- renderer ------------------------------ *)

\* Number of leading characters of s, from index i on, that are in [A-Z].
RECURSIVE UpperRun(_, _)
UpperRun(s, i) ==
  IF i > Len(s) \/ ~IsUpper(s[i]) THEN 0 ELSE 1 + UpperRun(s, i + 1)

\* is_ticket: re.fullmatch(r"[A-Z]{2,}-\d+", tag)
is_ticket(tag) ==
  LET u == UpperRun(tag, 1) IN
    /\ u >= 2
    /\ Len(tag) >= u + 2
    /\ tag[u + 1] = "-"
    /\ \A k \in (u + 2)..Len(tag) : IsDigit(tag[k])

\* The blank tags dropped and the others kept untrimmed.
KeptTagsUntrimmed(tags) ==
  SelectSeq(tags, LAMBDA t : t # <<>> /\ Strip(t) # <<>>)

\* [t.strip() for t in tags if t and t.strip()]
KeptTags(tags) ==
  LET kept == SelectSeq(tags, LAMBDA t : t # <<>> /\ Strip(t) # <<>>) IN
    [i \in 1..Len(kept) |-> Strip(kept[i])]

\* f"* {t}: {message}".rstrip()
PersonLine(t, message) == RStrip(<<"*", " ">> \o t \o <<":", " ">> \o message)

\* The sub-bullet indented by two blanks instead of four.
TicketLinesTwoBlanks(t, message) ==
  << <<"*", " ">> \o t, RStrip(<<" ", " ", "*", " ">> \o message) >>

\* f"* {t}" and f"    * {message}".rstrip()
TicketLines(t, message) ==
  << <<"*", " ">> \o t,
     RStrip(<<" ", " ", " ", " ", "*", " ">> \o message) >>

\* The two lines of every ticket of the list, in the order of the list.
RECURSIVE AllTicketLines(_, _)
AllTicketLines(tickets, message) ==
  IF tickets = <<>> THEN <<>>
  ELSE TicketLines(tickets[1], message) \o AllTicketLines(Tail(tickets), message)

\* render_note_lines(message, tags).lines
render_note_lines(message, tags) ==
  LET kept        == KeptTags(tags)
      person_like == Sorted(SelectSeq(kept, LAMBDA t : ~is_ticket(t)))
      tickets     == Sorted(SelectSeq(kept, is_ticket))
  IN  IF kept = <<>>
        THEN << RStrip(<<"*", " ">> \o message) >>
        ELSE [i \in 1..Len(person_like) |-> PersonLine(person_like[i], message)]
               \o AllTicketLines(tickets, message)

(* ----------------------------- file manager ---------------------------- *)

\* Two decimal digits of n, zero padded (%m, %d).
Pad2(n) == << Digits[(n \div 10) + 1], Digits[(n % 10) + 1] >>

\* Four decimal digits of n, zero padded (%Y).
Pad4(n) == Pad2(n \div 100) \o Pad2(n % 100)

\* dt.strftime(DATE_HEADER_FMT), DATE_HEADER_FMT = "%m/%d/%Y"
DATE_HEADER_FMT(dt) ==
  Pad2(dt.month) \o <<"/">> \o Pad2(dt.day) \o <<"/">> \o Pad4(dt.year)

\* The pattern without the ^ anchor: the match may start anywhere in a line.
DateHeaderAtUnanchored(c, i, date) ==
  /\ c[i] = "#"
  /\ LET j == SkipSpace(c, i + 1)
         k == j + Len(date)
     IN  /\ j > i + 1
         /\ k - 1 <= Len(c)
         /\ SubSeq(c, j, k - 1) = date
         /\ LET e == SkipSpace(c, k) IN
              e = Len(c) + 1 \/ \E n \in k..(e - 1) : c[n] = "\n"

\* The regular expression ^#\s+<date>\s*$ under re.MULTILINE matches the
\* text c starting at index i: ^ is the start of the text or the position
\* after a line feed, \s+ takes all the white space before the date (the date
\* starts with a digit), and $ is the end of the text or a position before a
\* line feed, reached through white space only.
DateHeaderAt(c, i, date) ==
  /\ i = 1 \/ c[i - 1] = "\n"
  /\ c[i] = "#"
  /\ LET j == SkipSpace(c, i + 1)
         k == j + Len(date)
     IN  /\ j > i + 1
         /\ k - 1 <= Len(c)
         /\ SubSeq(c, j, k - 1) = date
         /\ LET e == SkipSpace(c, k) IN
              e = Len(c) + 1 \/ \E n \in k..(e - 1) : c[n] = "\n"

\* The search without re.MULTILINE: only the first line can match.
SearchDateHeaderFirstLine(c, date) == c # <<>> /\ DateHeaderAt(c, 1, date)

\* re.search(rf"^#\s+{date_header}\s*$", content, re.MULTILINE)
SearchDateHeader(c, date) == \E i \in 1..Len(c) : DateHeaderAt(c, i, date)

\* \d{2}/\d{2}/\d{4}
IsDateText(t) ==
  /\ Len(t) = 10
  /\ \A n \in {1, 2, 4, 5, 7, 8, 9, 10} : IsDigit(t[n])
  /\ t[3] = "/" /\ t[6] = "/"

\* HEADER_RE, ^#\s+(\d{2}/\d{2}/\d{4})\s*$ under re.MULTILINE, matches the
\* text c starting at index i.
HEADER_RE(c, i) ==
  LET j == SkipSpace(c, i + 1) IN
    /\ j + 9 <= Len(c)
    /\ IsDateText(SubSeq(c, j, j + 9))
    /\ DateHeaderAt(c, i, SubSeq(c, j, j + 9))

\* Group 1 of the HEADER_RE match starting at index i.
HeaderDate(c, i) == LET j == SkipSpace(c, i + 1) IN SubSeq(c, j, j + 9)

\* What reading in text mode returns for the stored characters: "\r\n" and
\* a lone "\r" both arrive as "\n" (universal newlines).
ReadText(b) ==
  LET kept == SelectSeq([i \in 1..Len(b) |-> i],
                        LAMBDA i : ~(b[i] = "\n" /\ i > 1 /\ b[i - 1] = "\r"))
  IN  [k \in 1..Len(kept) |-> IF b[kept[k]] = "\r" THEN "\n" ELSE b[kept[k]]]

\* A file that does not exist, and a file that holds the characters b.
AbsentFile == [exists |-> FALSE, data |-> <<>>]

FileOf(b) == [exists |-> TRUE, data |-> b]

\* path.read_text(encoding="utf-8") if path.exists() else ""
ReadContent(f) == IF f.exists THEN ReadText(f.data) ELSE <<>>

\* The blank separator line written before the header of an empty file too.
HeaderTextAlwaysSeparated(content, date) ==
  (IF content # <<>> /\ content[Len(content)] # "\n" THEN <<"\n">> ELSE <<>>)
    \o <<"\n">> \o <<"#", " ">> \o date \o <<"\n", "\n">>

\* What ensure_date_header writes when content holds no header for the date.
HeaderText(content, date) ==
  (IF content # <<>> /\ content[Len(content)] # "\n" THEN <<"\n">> ELSE <<>>)
    \o (IF content # <<>> THEN <<"\n">> ELSE <<>>)
    \o <<"#", " ">> \o date \o <<"\n", "\n">>

\* The header search done on the file as it is when the header is written,
\* as under a lock held from the read on.
WriteDateHeaderRereading(f, content, date) ==
  IF SearchDateHeader(ReadContent(f), date)
    THEN f
    ELSE FileOf(f.data \o HeaderText(ReadContent(f), date))

\* The file after the open("a") block of ensure_date_header, entered with
\* the content read before it; the file unchanged when the header was found.
WriteDateHeader(f, content, date) ==
  IF SearchDateHeader(content, date)
    THEN f
    ELSE FileOf(f.data \o HeaderText(content, date))

\* The lines joined by line feeds, with none after the last line.
RECURSIVE LinesTextJoined(_)
LinesTextJoined(lines) ==
  IF lines = <<>> THEN <<>>
  ELSE IF Len(lines) = 1 THEN lines[1]
  ELSE lines[1] \o <<"\n">> \o LinesTextJoined(Tail(lines))

\* The characters append_lines_under_today writes: each line and a line feed.
RECURSIVE LinesText(_)
LinesText(lines) ==
  IF lines = <<>> THEN <<>>
  ELSE lines[1] \o <<"\n">> \o LinesText(Tail(lines))

\* The file after append_lines_under_today.
AppendLinesTo(f, lines) == FileOf(f.data \o LinesText(lines))

(* -------------------------------- inputs ------------------------------- *)

\* Most add invocations of one behaviour.
MaxAdds == 3

\* The dates notes are added for: two of one year, one of the year before.
Dates ==
  { [year |-> 2025, month |-> 1, day |-> 2],
    [year |-> 2025, month |-> 3, day |-> 4],
    [year |-> 2024, month |-> 1, day |-> 2] }

Years == { d.year : d \in Dates }

\* The notes added, as given on the command line: a plain message, a message
\* with surrounding blanks and a person and a ticket tag, and a message with
\* a line break followed by the text of a date header.
Notes ==
  { [message |-> <<"h", "i">>, tag |-> <<>>],
    [message |-> <<" ", "g", "o", " ">>,
     tag |-> << <<" ", "D", "T", "-", "9", " ">>, <<"A", "l">> >>],
    [message |-> <<"x", "\n", "#", " ", "0", "1", "/", "0", "2", "/", "2", "0", "2", "5">>,
     tag |-> <<>>] }

\* The processes that run add invocations.
Procs == {1, 2}

(* -------------------------------- state -------------------------------- *)

VARIABLES
  dirExists,   \* the notes directory exists
  files,       \* files[y]: the year-file notes_dir/<y>.md
  pc,          \* pc[p]: where process p is in cmd_add
  args,        \* args[p]: the date, message and tags of p's invocation
  content,     \* content[p]: what p's ensure_date_header read (line 85)
  stdout,      \* the confirmation lines printed: line count and year
  trace,       \* history: the file operations performed, in order
  io,          \* history: the file-system calls that took effect, in order
  rMessage,    \* renderer runs: the message
  rTags,       \* renderer runs: the tag list
  rLines,      \* renderer runs: the lines rendered from rMessage and rTags
  rFirst,      \* renderer runs: the first tag order and its rendered lines
  rPhase       \* renderer runs: "input" before the first rendering

fsVars == <<dirExists, files>>
procVars == <<pc, args, content, stdout, trace, io>>
renderVars == <<rMessage, rTags, rLines, rFirst, rPhase>>
vars == <<dirExists, files, pc, args, content, stdout, trace, io,
          rMessage, rTags, rLines, rFirst, rPhase>>

NoArgs == [dt |-> [year |-> 2025, month |-> 1, day |-> 2],
           message |-> <<>>, tag |-> <<>>]

\* One entry of the history: operation op of process p for date dt took the
\* year-file from before to after; lines are the lines it was given.
Entry(op, p, dt, before, after, lines) ==
  [op |-> op, p |-> p, dt |-> dt, before |-> before, after |-> after,
   lines |-> lines]

\* The invocation process p is in: the place in the history of the
\* ensure_year_file that started it (0 when p was not started by cmd_add).
Invocation(p) ==
  LET starts == { n \in 1..Len(trace) :
                    trace[n].op = "ensure_year_file" /\ trace[n].p = p }
  IN  IF starts = {} THEN 0
      ELSE CHOOSE n \in starts : \A m \in starts : m <= n

\* The calls evs, in order, as made by process p in invocation inv.
IoCalls(p, inv, evs) == [i \in 1..Len(evs) |-> [p |-> p, inv |-> inv, ev |-> evs[i]]]

\* Number of add invocations started so far.
Adds == Cardinality({ n \in 1..Len(trace) : trace[n].op = "ensure_year_file" })

\* The renderer is idle in the file manager's behaviours.
RenderIdle ==
  /\ rMessage = <<>> /\ rTags = <<>> /\ rLines = <<>>
  /\ rFirst = [tags |-> <<>>, lines |-> <<>>]
  /\ rPhase = "input"

\* No invocation has run.
ProcsIdle ==
  /\ pc = [p \in Procs |-> "idle"]
  /\ args = [p \in Procs |-> NoArgs]
  /\ content = [p \in Procs |-> <<>>]
  /\ stdout = <<>>
  /\ trace = <<>>
  /\ io = <<>>

\* Every year-file is absent or empty, and a file exists only in a directory.
Init ==
  /\ dirExists \in BOOLEAN
  /\ files \in [Years -> {AbsentFile, FileOf(<<>>)}]
  /\ (\E y \in Years : files[y].exists) => dirExists
  /\ ProcsIdle
  /\ RenderIdle

(* ------------------------------- cmd_add ------------------------------- *)

\* The year-file opened for writing instead of touched: it is emptied.
ensure_year_file_truncating(f) == FileOf(<<>>)

\* ensure_year_file: the year-file of dt after mkdir and touch.
ensure_year_file(f) == IF f.exists THEN f ELSE FileOf(<<>>)

\* cmd_add up to and including ensure_year_file (lines 114-123): process p
\* starts an invocation for date dt and note.
Start(p, dt, note) ==
  /\ pc[p] \in {"idle", "done", "failed"}
  /\ Adds < MaxAdds
  /\ args' = [args EXCEPT ![p] = [dt |-> dt, message |-> note.message,
                                  tag |-> note.tag]]
  /\ dirExists' = TRUE
  /\ files' = [files EXCEPT ![dt.year] = ensure_year_file(@)]
  /\ trace' = Append(trace, Entry("ensure_year_file", p, dt, files[dt.year],
                                  ensure_year_file(files[dt.year]), <<>>))
  /\ io' = io \o IoCalls(p, Len(trace) + 1,
                        (IF dirExists THEN <<>> ELSE <<"mkdir">>)
                          \o (IF files[dt.year].exists THEN <<>> ELSE <<"touch">>))
  /\ pc' = [pc EXCEPT ![p] = "read"]
  /\ UNCHANGED <<content, stdout, renderVars>>

\* ensure_date_header, lines 84-85: p reads the whole year-file.
HeaderRead(p) ==
  /\ pc[p] = "read"
  /\ content' = [content EXCEPT ![p] = ReadContent(files[args[p].dt.year])]
  /\ io' = io \o IoCalls(p, Invocation(p),
                        IF files[args[p].dt.year].exists THEN <<"read">> ELSE <<>>)
  /\ pc' = [pc EXCEPT ![p] = "write"]
  /\ UNCHANGED <<fsVars, args, stdout, trace, renderVars>>

\* The file opened for append before the search, whatever the search finds.
HeaderWriteCallsAlways(found) == <<"open_append", "close">>

\* The file-system calls of ensure_date_header after the search (lines
\* 88-98): none when the header was found, else the with-block's open and
\* close.
HeaderWriteCalls(found) == IF found THEN <<>> ELSE <<"open_append", "close">>

\* ensure_date_header, lines 88-98: p searches what it read and appends the
\* header when the search fails; p continues at next.
HeaderWrite(p, next) ==
  /\ pc[p] = "write"
  /\ LET dt == args[p].dt
         f  == WriteDateHeader(files[dt.year], content[p], DATE_HEADER_FMT(dt))
     IN  /\ files' = [files EXCEPT ![dt.year] = f]
         /\ trace' = Append(trace, Entry("ensure_date_header", p, dt,
                                         files[dt.year], f, <<>>))
         /\ io' = io \o IoCalls(p, Invocation(p),
                               HeaderWriteCalls(SearchDateHeader(content[p],
                                                                 DATE_HEADER_FMT(dt))))
  /\ pc' = [pc EXCEPT ![p] = next]
  /\ UNCHANGED <<dirExists, args, content, stdout, renderVars>>

\* The lines cmd_add renders (line 126).
Rendered(a) == render_note_lines(Strip(a.message), a.tag)

\* The lines appended to the year-file of 2025 whatever the note's year.
AppendLinesFixedYear(p) ==
  /\ pc[p] = "append"
  /\ LET dt    == args[p].dt
         lines == Rendered(args[p])
         f     == AppendLinesTo(files[2025], lines)
     IN  /\ files' = [files EXCEPT ![2025] = f]
         /\ trace' = Append(trace, Entry("append_lines_under_today", p, dt,
                                         files[2025], f, lines))
         /\ stdout' = Append(stdout, [count |-> Len(lines), year |-> 2025])
         /\ io' = io \o IoCalls(p, Invocation(p), <<"open_append", "close">>)
  /\ pc' = [pc EXCEPT ![p] = "done"]
  /\ UNCHANGED <<dirExists, args, content, renderVars>>

\* cmd_add, lines 126-129: p renders the note, appends its lines and prints
\* the confirmation.
AppendLines(p) ==
  /\ pc[p] = "append"
  /\ LET dt    == args[p].dt
         lines == Rendered(args[p])
         f     == AppendLinesTo(files[dt.year], lines)
     IN  /\ files' = [files EXCEPT ![dt.year] = f]
         /\ trace' = Append(trace, Entry("append_lines_under_today", p, dt,
                                         files[dt.year], f, lines))
         /\ stdout' = Append(stdout, [count |-> Len(lines), year |-> dt.year])
         /\ io' = io \o IoCalls(p, Invocation(p), <<"open_append", "close">>)
  /\ pc' = [pc EXCEPT ![p] = "done"]
  /\ UNCHANGED <<dirExists, args, content, renderVars>>

\* Add invocations run one at a time, by one process.
Next ==
  \/ \E dt \in Dates, note \in Notes : Start(1, dt, note)
  \/ HeaderRead(1)
  \/ HeaderWrite(1, "append")
  \/ AppendLines(1)

Spec == Init /\ [][Next]_vars

\* The notes whose message has no line break.
PlainNotes ==
  { n \in Notes : \A i \in 1..Len(n.message) : n.message[i] # "\n" }

\* As Next, with the notes that have no line break in the message.
NextPlain ==
  \/ \E dt \in Dates, note \in PlainNotes : Start(1, dt, note)
  \/ HeaderRead(1)
  \/ HeaderWrite(1, "append")
  \/ AppendLines(1)

SpecPlain == Init /\ [][NextPlain]_vars

(* ----------------------- the append of a note fails -------------------- *)

\* Most add invocations, and most failing ones, of one behaviour with
\* failures.
MaxFailAdds == 2

MaxFails == 1

\* Number of add invocations that failed so far.
Fails == Cardinality({ n \in 1..Len(trace) : trace[n].op = "append_failed" })

\* The bytes written so far removed when the append fails.
FailedAppendRolledBack(f, lines, k) == FileOf(<<>>)

\* The file after an append_lines_under_today that raised OSError once k
\* characters of its lines had reached the file.
FailedAppend(f, lines, k) == FileOf(f.data \o SubSeq(LinesText(lines), 1, k))

\* cmd_add, lines 126-127, failing: the open raises (opened is false and
\* nothing is written) or a write or the closing flush raises after k
\* characters, fewer than all, were written.  The exception ends the
\* invocation: nothing is printed.
AppendFails(p, opened, k) ==
  /\ pc[p] = "append"
  /\ Fails < MaxFails
  /\ LET dt    == args[p].dt
         lines == Rendered(args[p])
         f     == FailedAppend(files[dt.year], lines, k)
     IN  /\ k < Len(LinesText(lines))
         /\ ~opened => k = 0
         /\ files' = [files EXCEPT ![dt.year] = f]
         /\ trace' = Append(trace, Entry("append_failed", p, dt,
                                         files[dt.year], f, lines))
         /\ io' = io \o IoCalls(p, Invocation(p),
                               IF opened THEN <<"open_append", "close">> ELSE <<>>)
  /\ pc' = [pc EXCEPT ![p] = "failed"]
  /\ UNCHANGED <<dirExists, args, content, stdout, renderVars>>

\* Most characters of the lines of one note.
MaxText ==
  CHOOSE n \in 0..64 :
    /\ \A note \in PlainNotes : Len(LinesText(Rendered(note))) <= n
    /\ \E note \in PlainNotes : Len(LinesText(Rendered(note))) = n

\* Add invocations run one at a time; the append of the lines may fail.
NextFail ==
  \/ /\ Adds < MaxFailAdds
     /\ \E dt \in { d \in Dates : d.year = 2025 }, note \in PlainNotes :
          Start(1, dt, note)
  \/ HeaderRead(1)
  \/ HeaderWrite(1, "append")
  \/ AppendLines(1)
  \/ \E opened \in BOOLEAN, k \in 0..MaxText : AppendFails(1, opened, k)

SpecFail == Init /\ [][NextFail]_vars

(* ------------------- ensure_date_header called twice ------------------- *)

\* Most ensure_date_header calls of one behaviour.
MaxCalls == 2

\* Most pieces a year-file's starting content is put together from.
MaxPieces == 3

\* The pieces: headers of the two dates of 2025, a date alone, and single
\* characters.
Pieces ==
  { <<"#", " ", "0", "1", "/", "0", "2", "/", "2", "0", "2", "5">>,
    <<"#", " ", "0", "3", "/", "0", "4", "/", "2", "0", "2", "5">>,
    <<"0", "1", "/", "0", "2", "/", "2", "0", "2", "5">>,
    <<"#">>, <<" ">>, <<"\n">>, <<"\r">>, <<"x">> }

\* The texts put together from at most n pieces.
RECURSIVE Texts(_)
Texts(n) ==
  IF n = 0 THEN { <<>> }
  ELSE Texts(n - 1) \cup { t \o p : t \in Texts(n - 1), p \in Pieces }

\* Number of ensure_date_header calls completed so far.
Calls == Cardinality({ n \in 1..Len(trace) : trace[n].op = "ensure_date_header" })

\* The year-file of 2025 is absent or holds any of the texts; process 1 is
\* about to call ensure_date_header for a date of 2025.
InitHeader ==
  /\ dirExists = TRUE
  /\ \E f \in {AbsentFile} \cup { FileOf(t) : t \in Texts(MaxPieces) } :
       files = [y \in Years |-> IF y = 2025 THEN f ELSE AbsentFile]
  /\ pc = [p \in Procs |-> IF p = 1 THEN "read" ELSE "idle"]
  /\ \E dt \in { d \in Dates : d.year = 2025 } :
       args = [p \in Procs |-> [dt |-> dt, message |-> <<>>, tag |-> <<>>]]
  /\ content = [p \in Procs |-> <<>>]
  /\ stdout = <<>>
  /\ trace = <<>>
  /\ io = <<>>
  /\ RenderIdle

\* ensure_date_header is called again and again for the same date.
NextHeader ==
  \/ Calls < MaxCalls /\ HeaderRead(1)
  \/ HeaderWrite(1, "read")

SpecHeader == InitHeader /\ [][NextHeader]_vars

(* --------------------- two processes, no coordination ------------------ *)

\* Most add invocations of one behaviour of the two processes.
MaxRaceAdds == 2

\* Both processes run add invocations for the dates of 2025, their steps
\* interleaved.
NextRace ==
  \E p \in Procs :
    \/ /\ Adds < MaxRaceAdds
       /\ \E dt \in { d \in Dates : d.year = 2025 }, note \in PlainNotes :
            Start(p, dt, note)
    \/ HeaderRead(p)
    \/ HeaderWrite(p, "append")
    \/ AppendLines(p)

SpecRace == Init /\ [][NextRace]_vars

(* ----------------------------- renderer runs --------------------------- *)

\* Most tags of one tag list.
MaxTags == 3

\* The messages rendered: a word, the empty message, a message that ends
\* with a blank.
RMessages == { <<"s", "y">>, <<>>, <<"a", " ">> }

\* The tags: two person-like tags, two ticket-like tags, a ticket-like tag
\* between blanks, a tag with one letter before the hyphen, a blank tag and
\* the empty tag.
RTagSet ==
  { <<"C", "h">>, <<"a", "l">>, <<"D", "T", "-", "9">>,
    <<"A", "B", "-", "1", "0">>, <<" ", "D", "T", "-", "9", " ">>,
    <<"A", "-", "1">>, <<" ">>, <<>> }

\* The tag lists of at most n tags.
RECURSIVE TagLists(_)
TagLists(n) ==
  IF n = 0 THEN { <<>> }
  ELSE TagLists(n - 1) \cup { Append(l, t) : l \in TagLists(n - 1), t \in RTagSet }

InitRender ==
  /\ dirExists = FALSE
  /\ files = [y \in Years |-> AbsentFile]
  /\ ProcsIdle
  /\ rMessage \in RMessages
  /\ rTags \in TagLists(MaxTags)
  /\ rLines = <<>>
  /\ rFirst = [tags |-> <<>>, lines |-> <<>>]
  /\ rPhase = "input"

\* render_note_lines is called with the message and the tag list.
Render ==
  /\ rPhase = "input"
  /\ rLines' = render_note_lines(rMessage, rTags)
  /\ rFirst' = [tags |-> rTags, lines |-> render_note_lines(rMessage, rTags)]
  /\ rPhase' = "rendered"
  /\ UNCHANGED <<fsVars, procVars, rMessage, rTags>>

\* render_note_lines is called with two neighbours of the tag list swapped.
RenderSwapped(i) ==
  /\ rPhase = "rendered"
  /\ rTags[i] # rTags[i + 1]
  /\ rTags' = [rTags EXCEPT ![i] = rTags[i + 1], ![i + 1] = rTags[i]]
  /\ rLines' = render_note_lines(rMessage, rTags')
  /\ UNCHANGED <<fsVars, procVars, rMessage, rFirst, rPhase>>

NextRender ==
  \/ Render
  \/ \E i \in 1..(Len(rTags) - 1) : RenderSwapped(i)

SpecRender == InitRender /\ [][NextRender]_vars

(* ------------------------ reading a year-file back --------------------- *)

\* s is a prefix of t.
IsPrefix(s, t) == Len(s) <= Len(t) /\ SubSeq(t, 1, Len(s)) = s

\* s is a suffix of t.
IsSuffix(s, t) ==
  Len(s) <= Len(t) /\ SubSeq(t, Len(t) - Len(s) + 1, Len(t)) = s

\* The text of year-file y as read back.
YearText(y) == ReadContent(files[y])

\* Where the date headers of text c start.
HeaderPositions(c) == { i \in 1..Len(c) : HEADER_RE(c, i) }

\* Where the headers of one date start in text c.
HeadersOf(c, date) == { i \in 1..Len(c) : DateHeaderAt(c, i, date) }

\* The start of the last date header of c (0 when c has none).
LastHeader(c) ==
  IF HeaderPositions(c) = {} THEN 0
  ELSE CHOOSE i \in HeaderPositions(c) : \A j \in HeaderPositions(c) : j <= i

\* The index after the first line feed at or after i (Len(c)+1 at the end).
NextLine(c, i) ==
  LET feeds == { n \in i..Len(c) : c[n] = "\n" } IN
    IF feeds = {} THEN Len(c) + 1
    ELSE (CHOOSE n \in feeds : \A m \in feeds : n <= m) + 1

\* The non-empty lines of c that start at index i or later and before to.
RECURSIVE LinesFrom(_, _, _)
LinesFrom(c, i, to) ==
  IF i >= to \/ i > Len(c) THEN <<>>
  ELSE LET n    == NextLine(c, i)
           last == IF n - 1 <= Len(c) /\ c[n - 1] = "\n" THEN n - 2 ELSE n - 1
           line == SubSeq(c, i, last)
       IN  (IF line = <<>> THEN <<>> ELSE <<line>>) \o LinesFrom(c, n, to)

\* The bullet lines of the Date Section whose header starts at h, up to to.
SectionLines(c, h, to) == LinesFrom(c, NextLine(c, h), to)

\* No add invocation is under way.
Quiet == pc[1] \in {"idle", "done"} /\ pc[2] \in {"idle", "done"}

(* -------------------------------- claims ------------------------------- *)

\* C1: whenever no add invocation is under way, every year-file holds at
\* most one date header per calendar date, whatever the dates, messages
\* (line breaks included) and tags of the invocations so far.
C1_OneHeaderPerDate ==
  Quiet =>
    \A y \in Years :
      LET c == YearText(y) IN
        \A i, j \in HeaderPositions(c) :
          HeaderDate(c, i) = HeaderDate(c, j) => i = j

\* C2: when append_lines_under_today is about to write the lines of a note
\* for date D, the last date header of the year-file is the header of D.
C2_LastHeaderIsToday ==
  pc[1] = "append" =>
    LET c == YearText(args[1].dt.year)
        h == LastHeader(c)
    IN  h > 0 /\ HeaderDate(c, h) = DATE_HEADER_FMT(args[1].dt)

\* C3: every step of the file manager is append-only: a year-file that
\* exists still exists after the step, and its characters before the step
\* are a prefix of its characters after it.
C3_AppendOnly ==
  [][\A y \in Years :
       files[y].exists =>
         files'[y].exists /\ IsPrefix(files[y].data, files'[y].data)]_vars

\* C3, its case: a header for the earlier date of 2025 was appended to a
\* year-file that already held the header of the later date.
C3_BackdatedHeaderAppended ==
  \E n \in 1..Len(trace) :
    /\ trace[n].op = "ensure_date_header"
    /\ trace[n].dt = [year |-> 2025, month |-> 1, day |-> 2]
    /\ trace[n].after # trace[n].before
    /\ HeadersOf(ReadContent(trace[n].before),
                 DATE_HEADER_FMT([year |-> 2025, month |-> 3, day |-> 4])) # {}

\* dt1 is an earlier date than dt2, in the same year.
EarlierInYear(dt1, dt2) ==
  /\ dt1.year = dt2.year
  /\ dt1.month < dt2.month \/ (dt1.month = dt2.month /\ dt1.day < dt2.day)

\* C5: when the last two add invocations were for dates D1 and then a later
\* D2 of the same year, and the year-file had no header for either before
\* them, the file has exactly two headers more than before, one for D1 and
\* then one for D2; the lines between them are the lines of the first note
\* and the lines after D2's header are the lines of the second note.
C5_TwoSections ==
  (pc[1] = "done" /\ Len(trace) >= 6) =>
    LET n      == Len(trace)
        first  == trace[n - 3]
        second == trace[n]
        old    == ReadContent(trace[n - 5].before)
        c      == ReadContent(second.after)
        d1     == DATE_HEADER_FMT(first.dt)
        d2     == DATE_HEADER_FMT(second.dt)
    IN  (/\ EarlierInYear(first.dt, second.dt)
         /\ ~SearchDateHeader(old, d1)
         /\ ~SearchDateHeader(old, d2))
        =>
        /\ Cardinality(HeaderPositions(c)) = Cardinality(HeaderPositions(old)) + 2
        /\ Cardinality(HeadersOf(c, d1)) = 1
        /\ Cardinality(HeadersOf(c, d2)) = 1
        /\ LET h1 == CHOOSE i \in HeadersOf(c, d1) : TRUE
               h2 == CHOOSE i \in HeadersOf(c, d2) : TRUE
           IN  /\ h1 < h2
               /\ SectionLines(c, h1, h2) = first.lines
               /\ SectionLines(c, h2, Len(c) + 1) = second.lines

\* C10: after an add invocation the year-file ends with the rendered lines
\* of the note, each followed by one line feed; read back, those lines are
\* the last lines of the Date Section of the header of the note's date.
C10_RoundTrip ==
  pc[1] = "done" =>
    LET a     == trace[Len(trace)]
        lines == Rendered(args[1])
        c     == YearText(a.dt.year)
        hs    == HeadersOf(c, DATE_HEADER_FMT(a.dt))
    IN  /\ IsSuffix(LinesText(lines), files[a.dt.year].data)
        /\ \E h \in hs :
             LET to == IF \E i \in HeaderPositions(c) : i > h
                         THEN CHOOSE i \in HeaderPositions(c) :
                                /\ i > h
                                /\ \A j \in HeaderPositions(c) : j > h => i <= j
                         ELSE Len(c) + 1
             IN  to = Len(c) + 1 /\ IsSuffix(lines, SectionLines(c, h, to))

\* C4: of two consecutive ensure_date_header calls for the same date, the
\* second leaves the year-file as it is, so the file has as many headers for
\* the date after two calls as after one; and it has exactly one after the
\* first call when it had none before it.
C4_HeaderIdempotent ==
  \A n \in 1..(Len(trace) - 1) :
    (/\ trace[n].op = "ensure_date_header"
     /\ trace[n + 1].op = "ensure_date_header"
     /\ trace[n].dt = trace[n + 1].dt)
    =>
    LET date == DATE_HEADER_FMT(trace[n].dt)
        zero == ReadContent(trace[n].before)
        one  == ReadContent(trace[n].after)
        two  == ReadContent(trace[n + 1].after)
    IN  /\ trace[n + 1].before = trace[n].after
        /\ trace[n + 1].after = trace[n].after
        /\ Cardinality(HeadersOf(two, date)) = Cardinality(HeadersOf(one, date))
        /\ HeadersOf(zero, date) = {} => Cardinality(HeadersOf(one, date)) = 1

\* C4, its case: ensure_date_header ran twice on a year-file that held text
\* but no header for the date.
C4_CalledTwice ==
  /\ Len(trace) = 2
  /\ trace[1].op = "ensure_date_header" /\ trace[2].op = "ensure_date_header"
  /\ trace[1].before.data # <<>>
  /\ HeadersOf(ReadContent(trace[1].before), DATE_HEADER_FMT(trace[1].dt)) = {}

\* Both processes are past the header search of an invocation for the same
\* date, and neither found a header in what it read.
BothMissedHeader ==
  /\ pc[1] \in {"append", "done"} /\ pc[2] \in {"append", "done"}
  /\ args[1].dt = args[2].dt
  /\ ~SearchDateHeader(content[1], DATE_HEADER_FMT(args[1].dt))
  /\ ~SearchDateHeader(content[2], DATE_HEADER_FMT(args[2].dt))

\* C6: when two processes add notes for the same date and both read the
\* year-file before either appended the header, the file ends up with two
\* headers for that date.
C6_RaceDuplicatesHeader ==
  BothMissedHeader =>
    Cardinality(HeadersOf(YearText(args[1].dt.year),
                          DATE_HEADER_FMT(args[1].dt))) = 2

\* C6, its case: both invocations have finished after such an interleaving.
C6_BothFinished == BothMissedHeader /\ pc[1] = "done" /\ pc[2] = "done"

\* C7: the rendered lines do not depend on the order of the tag list.
C7_PermutationInvariant ==
  (rPhase = "rendered" /\ KeptTags(rTags) # <<>>) => rLines = rFirst.lines

\* C7, its case: a list of three kept tags, not all the same, rendered in
\* an order other than the first.
C7_Reordered ==
  /\ rPhase = "rendered"
  /\ rTags # rFirst.tags
  /\ Len(KeptTags(rTags)) = 3
  /\ \E i \in 1..3 : is_ticket(KeptTags(rTags)[i])
  /\ \E i \in 1..3 : ~is_ticket(KeptTags(rTags)[i])

\* The list l in every ascending order (they are all the same list).
AscendingOrders(l) ==
  { o \in { [i \in 1..Len(l) |-> l[f[i]]] :
              f \in { g \in [1..Len(l) -> 1..Len(l)] :
                        \A i, j \in 1..Len(l) : g[i] = g[j] => i = j } } :
      \A i \in 1..(Len(l) - 1) : ~StrLess(o[i + 1], o[i]) }

\* The lines C8 describes for person-like tags ps and ticket-like tags ts in
\* that order; Trim is applied to the lines that end with the message.
C8Lines(ps, ts, message, Trim(_)) ==
  [i \in 1..(Len(ps) + 2 * Len(ts)) |->
     IF i <= Len(ps)
       THEN Trim(<<"*", " ">> \o ps[i] \o <<":", " ">> \o message)
     ELSE IF (i - Len(ps)) % 2 = 1
       THEN <<"*", " ">> \o ts[(i - Len(ps) + 1) \div 2]
     ELSE Trim(<<" ", " ", " ", " ", "*", " ">> \o message)]

\* The rendered lines are the lines C8 describes.
C8Holds(Trim(_)) ==
  (rPhase = "rendered" /\ KeptTags(rTags) # <<>>) =>
    LET kept    == KeptTags(rTags)
        persons == SelectSeq(kept, LAMBDA t : ~is_ticket(t))
        tickets == SelectSeq(kept, is_ticket)
    IN  /\ Len(rLines) = Len(persons) + 2 * Len(tickets)
        /\ \E ps \in AscendingOrders(persons), ts \in AscendingOrders(tickets) :
             rLines = C8Lines(ps, ts, rMessage, Trim)

\* A line left as it is.
Verbatim(line) == line

\* C8 as stated: p person-like and k ticket-like tags render as p lines
\* '* TAG: message' in ascending order, then for each ticket in ascending
\* order '* TICKET' and four blanks followed by '* message'.
C8_LinesVerbatim == C8Holds(Verbatim)

\* C8 as amended: the same, each line that ends with the message having its
\* trailing white space stripped.
C8_LinesTrimmed == C8Holds(RStrip)

\* C8, its case: the empty message rendered with three kept tags, a
\* ticket-like one and two person-like ones given in descending order.
C8_MixedTags ==
  /\ rPhase = "rendered"
  /\ rMessage = <<>>
  /\ LET kept == KeptTags(rTags) IN
       /\ Len(kept) = 3
       /\ \E i \in 1..3 : is_ticket(kept[i])
       /\ \E i, j \in 1..3 :
            /\ i < j
            /\ ~is_ticket(kept[i]) /\ ~is_ticket(kept[j])
            /\ StrLess(kept[j], kept[i])

\* Every character of tag t is white space.
Blank(t) == \A k \in 1..Len(t) : IsSpace(t[k])

\* C9: blank tags are discarded and the others trimmed before they are
\* classified: a list of blank tags renders as no tags do, the one line
\* '* message' with trailing white space stripped; any list renders as the
\* list of its trimmed tags; and a tag whose trimmed text has the ticket
\* shape renders as that ticket.
C9_TagsTrimmed ==
  rPhase = "rendered" =>
    /\ (\A i \in 1..Len(rTags) : Blank(rTags[i])) =>
         /\ rLines = << RStrip(<<"*", " ">> \o rMessage) >>
         /\ rLines = render_note_lines(rMessage, <<>>)
    /\ rLines = render_note_lines(rMessage,
                                  [i \in 1..Len(rTags) |-> Strip(rTags[i])])
    /\ \A i \in 1..Len(rTags) :
         (~Blank(rTags[i]) /\ is_ticket(Strip(rTags[i]))) =>
           \E n \in 1..(Len(rLines) - 1) :
             /\ rLines[n] = <<"*", " ">> \o Strip(rTags[i])
             /\ rLines[n + 1] = RStrip(<<" ", " ", " ", " ", "*", " ">> \o rMessage)

\* C9, its case: a list with a blank tag and a ticket-like tag between
\* blanks has been rendered.
C9_BlankAndPadded ==
  /\ rPhase = "rendered"
  /\ \E i \in 1..Len(rTags) : rTags[i] # <<>> /\ Blank(rTags[i])
  /\ \E i \in 1..Len(rTags) :
       rTags[i] # Strip(rTags[i]) /\ is_ticket(Strip(rTags[i]))

\* Invocation inv made the file-system call ev.
Made(inv, ev) == \E k \in 1..Len(io) : io[k].inv = inv /\ io[k].ev = ev

\* How often invocation inv made the file-system call ev.
TimesMade(inv, ev) ==
  Cardinality({ k \in 1..Len(io) : io[k].inv = inv /\ io[k].ev = ev })

\* C11: once an add invocation that had to create the notes directory and
\* the year-file is complete, the directory and the file exist and the file
\* starts with the header line of that invocation's date, then and after
\* every further invocation.
C11_FileStartsWithHeader ==
  \A n \in 1..Len(trace) :
    (/\ trace[n].op = "ensure_year_file"
     /\ Made(n, "mkdir") /\ Made(n, "touch")
     /\ Len(trace) >= n + 2)
    =>
    /\ dirExists
    /\ files[trace[n].dt.year].exists
    /\ IsPrefix(<<"#", " ">> \o DATE_HEADER_FMT(trace[n].dt) \o <<"\n">>,
                files[trace[n].dt.year].data)

\* C11, its case: the first invocation created the directory and the file,
\* and a second one has added a note for another date to the same file.
C11_SecondNoteAdded ==
  /\ pc[1] = "done"
  /\ Len(trace) = 6
  /\ Made(1, "mkdir") /\ Made(1, "touch")
  /\ trace[4].dt.year = trace[1].dt.year
  /\ trace[4].dt # trace[1].dt

\* Index i starts a line of text c.
LineStart(c, i) == i = 1 \/ c[i - 1] = "\n"

\* Some line of c is exactly '# ' followed by the date.
ExactHeaderLine(c, date) ==
  \E i \in 1..Len(c) :
    /\ LineStart(c, i)
    /\ SubSeq(c, i, NextLine(c, i) - (IF NextLine(c, i) - 1 <= Len(c)
                                         /\ c[NextLine(c, i) - 1] = "\n"
                                        THEN 2 ELSE 1))
         = <<"#", " ">> \o date

\* Some line of c starts with '#', then has white space only up to the
\* date, and after the date white space only up to a line end or the end of
\* c; the white space may hold line feeds.
SpacedHeaderLine(c, date) ==
  \E i \in 1..Len(c), j \in 1..Len(c) :
    /\ LineStart(c, i)
    /\ c[i] = "#"
    /\ j >= i + 2
    /\ \A k \in (i + 1)..(j - 1) : IsSpace(c[k])
    /\ j + Len(date) - 1 <= Len(c)
    /\ SubSeq(c, j, j + Len(date) - 1) = date
    /\ \E e \in (j + Len(date))..(Len(c) + 1) :
         /\ \A k \in (j + Len(date))..(e - 1) : IsSpace(c[k])
         /\ e = Len(c) + 1 \/ c[e] = "\n"

\* Every ensure_date_header call so far left the file alone exactly when
\* Present held of the text it read, and appended the header otherwise.
C12Holds(Present(_, _)) ==
  \A n \in 1..Len(trace) :
    trace[n].op = "ensure_date_header" =>
      LET date == DATE_HEADER_FMT(trace[n].dt)
          old  == ReadContent(trace[n].before)
      IN  /\ trace[n].after = trace[n].before <=> Present(old, date)
          /\ ~Present(old, date) =>
               /\ IsPrefix(trace[n].before.data, trace[n].after.data)
               /\ IsSuffix(<<"#", " ">> \o date \o <<"\n", "\n">>,
                           trace[n].after.data)

\* C12 as stated: the header of date D counts as present if and only if
\* some line is exactly '# ' followed by D; otherwise a header is appended.
C12_ExactLine == C12Holds(ExactHeaderLine)

\* C12 as amended: the header counts as present if and only if some line
\* starts with '#', white space, D and then has white space only.
C12_SpacedLine == C12Holds(SpacedHeaderLine)

\* C12, its case: ensure_date_header left alone a file none of whose lines
\* is exactly '# ' followed by the date.
C12_LooseHeaderFound ==
  /\ Len(trace) >= 1
  /\ trace[1].op = "ensure_date_header"
  /\ trace[1].after = trace[1].before
  /\ ~ExactHeaderLine(ReadContent(trace[1].before), DATE_HEADER_FMT(trace[1].dt))

\* The text C13 describes after a header for the date was appended to old.
C13Text(old, date) ==
  old
    \o (IF old # <<>> /\ old[Len(old)] # "\n" THEN <<"\n">> ELSE <<>>)
    \o (IF old # <<>> THEN <<"\n">> ELSE <<>>)
    \o <<"#", " ">> \o date \o <<"\n", "\n">>

\* C13: when ensure_date_header found no header for the date, the file
\* afterwards is the old content, a line feed if the old content is not
\* empty and does not end with one, one more line feed if the old content is
\* not empty, and the header line followed by a blank line; read as the
\* characters stored or as the text read back.
C13_HeaderBlock ==
  \A n \in 1..Len(trace) :
    (/\ trace[n].op = "ensure_date_header"
     /\ ~SearchDateHeader(ReadContent(trace[n].before), DATE_HEADER_FMT(trace[n].dt)))
    =>
    \/ trace[n].after.data
         = C13Text(trace[n].before.data, DATE_HEADER_FMT(trace[n].dt))
    \/ ReadContent(trace[n].after)
         = C13Text(ReadContent(trace[n].before), DATE_HEADER_FMT(trace[n].dt))

\* Invocation inv read the year-file before each time it opened it.
ReadBeforeOpen(inv) ==
  \A k \in 1..Len(io) :
    (io[k].inv = inv /\ io[k].ev = "open_append") =>
      \E j \in 1..(k - 1) : io[j].inv = inv /\ io[j].ev = "read"

\* C14 as stated: every complete add invocation opened the year-file for
\* append exactly once, closed it exactly once, and read it exactly once
\* before that.
C14_OneOpen ==
  \A n \in 1..Len(trace) :
    (trace[n].op = "ensure_year_file" /\ Len(trace) >= n + 2) =>
      /\ TimesMade(n, "open_append") = 1
      /\ TimesMade(n, "close") = 1
      /\ TimesMade(n, "read") = 1
      /\ ReadBeforeOpen(n)

\* C14 as amended: every complete add invocation read the year-file exactly
\* once, before it opened it, and opened it for append and closed it once
\* when the header of its date was there and twice when it had to append
\* the header.
C14_OneOrTwoOpens ==
  \A n \in 1..Len(trace) :
    (trace[n].op = "ensure_year_file" /\ Len(trace) >= n + 2) =>
      LET opens == IF trace[n + 1].after = trace[n + 1].before THEN 1 ELSE 2 IN
        /\ TimesMade(n, "open_append") = opens
        /\ TimesMade(n, "close") = opens
        /\ TimesMade(n, "read") = 1
        /\ ReadBeforeOpen(n)

\* C14, its case: two invocations are complete, the first appended its
\* header and the second found the header in the file.
C14_BothCases ==
  /\ pc[1] = "done"
  /\ Len(trace) = 6
  /\ trace[2].after # trace[2].before
  /\ trace[5].after = trace[5].before

\* C15: when the append of a note's lines failed after the same invocation
\* had appended the header, the header stays in the file, nothing was
\* printed for the invocation, the next operation (if any) starts a new
\* invocation, and no later ensure_date_header for that date changes the
\* file.
C15_FailureKeepsHeader ==
  /\ Len(stdout)
       = Cardinality({ n \in 1..Len(trace) : trace[n].op = "append_lines_under_today" })
  /\ \A n \in 2..Len(trace) :
       (/\ trace[n].op = "append_failed"
        /\ trace[n - 1].after # trace[n - 1].before)
       =>
       /\ IsPrefix(trace[n - 1].after.data, trace[n].after.data)
       /\ IsPrefix(trace[n - 1].after.data, files[trace[n].dt.year].data)
       /\ IF n = Len(trace) THEN pc[1] = "failed"
                            ELSE trace[n + 1].op = "ensure_year_file"
       /\ \A m \in (n + 1)..Len(trace) :
            (trace[m].op = "ensure_date_header" /\ trace[m].dt = trace[n].dt)
              => trace[m].after = trace[m].before

\* C15, its case: the first invocation appended its header and failed with
\* part of its lines written; a second one for the same date is complete.
C15_FailedThenAdded ==
  /\ pc[1] = "done"
  /\ Len(trace) = 6
  /\ trace[2].after # trace[2].before
  /\ trace[3].op = "append_failed"
  /\ trace[3].after # trace[3].before
  /\ trace[4].dt = trace[1].dt

\* The date text MM/DD/YYYY as the number YYYYMMDD.
DateNumber(t) ==
  LET d(i) == CodePoint[t[i]] - 48 IN
    (d(7) * 1000 + d(8) * 100 + d(9) * 10 + d(10)) * 10000
      + (d(1) * 10 + d(2)) * 100 + d(4) * 10 + d(5)

\* The places in the history where an add invocation started.
Started == { n \in 1..Len(trace) : trace[n].op = "ensure_year_file" }

\* C16: when the notes added so far are all of one year and were added in
\* non-decreasing date order, the date headers of every year-file are in
\* strictly increasing date order from top to bottom.
C16_Chronological ==
  (\A a, b \in Started :
     /\ trace[a].dt.year = trace[b].dt.year
     /\ a < b => ~EarlierInYear(trace[b].dt, trace[a].dt))
  =>
  \A y \in Years :
    LET c == YearText(y) IN
      \A i, j \in HeaderPositions(c) :
        i < j => DateNumber(HeaderDate(c, i)) < DateNumber(HeaderDate(c, j))

\* What the operations for year y in the first n entries of history tr
\* wrote, in order.
RECURSIVE WrittenFor(_, _, _)
WrittenFor(tr, y, n) ==
  IF n = 0 THEN <<>>
  ELSE WrittenFor(tr, y, n - 1)
         \o (IF tr[n].dt.year = y
               THEN SubSeq(tr[n].after.data, Len(tr[n].before.data) + 1,
                           Len(tr[n].after.data))
               ELSE <<>>)

\* C17: a step of an add invocation for a date of year Y changes no
\* year-file but that of Y, and after it every year-file holds exactly what
\* the operations for dates of its own year wrote.
C17_OnlyOwnYearFile ==
  [][/\ \A y \in Years : files'[y] # files[y] => args'[1].dt.year = y
     /\ \A y \in Years : files'[y].data = WrittenFor(trace', y, Len(trace'))]_vars

\* C17, its case: notes have been added for dates of both years.
C17_BothYearsWritten ==
  /\ pc[1] = "done"
  /\ \A y \in Years : files[y].data # <<>>

\* C18: when an add invocation is complete its year-file is not empty and
\* ends with a line feed, and so does every year-file written so far; and
\* when ensure_date_header gets to its write, what it read is empty or ends
\* with a line feed, so the branch of line 93 is not taken.
C18_EndsWithLineFeed ==
  /\ pc[1] = "done" =>
       /\ files[args[1].dt.year].data # <<>>
       /\ \A y \in Years :
            files[y].data # <<>> => files[y].data[Len(files[y].data)] = "\n"
  /\ pc[1] = "write" =>
       ~(content[1] # <<>> /\ content[1][Len(content[1])] # "\n")

\* C18, its case: ensure_date_header is about to append a header to a
\* year-file that holds the notes of earlier invocations.
C18_HeaderAfterNotes ==
  /\ pc[1] = "write"
  /\ content[1] # <<>>
  /\ ~SearchDateHeader(content[1], DATE_HEADER_FMT(args[1].dt))

====
